---- MODULE Spec2Model ----
(***************************************************************************)
(* Change-feed summariser of cosmos-cf-demo (summariser/app/summarizer.py) *)
(* together with the writers of the readings container                     *)
(* (generator/app/generator.py).                                           *)
(*                                                                         *)
(* Conventions                                                             *)
(*   - Python None is the empty sequence <<>>; a present optional value v  *)
(*     is the one-element sequence <<v>>.                                  *)
(*   - A continuation token is opaque to the program.  The store issues    *)
(*     the token <<p>> for "the first p records of the change feed have    *)
(*     been scanned".                                                      *)
(*   - Temperatures are fixed-point, in thousandths of a degree; avg_temp  *)
(*     is in hundredths (round(..., 2)).                                   *)
(*   - A container is the set of its documents; upsert replaces by id.     *)
(*   - time.sleep(INTERVAL) is the step Wake; the time that elapses is the *)
(*     Tick steps interleaved with it (BATCH_INTERVAL_SECONDS may be 0).   *)
(*   - An exception nobody catches ends the process (pc = "dead"); the     *)
(*     container platform starts it again (Restart).                       *)
(***************************************************************************)
EXTENDS Integers, Sequences, FiniteSets

(* ------------------------------ bounds -------------------------------- *)
MaxReadings == 2
MaxClock == 1
MaxAbandoned == 1
MaxHistory == 11

(* ------------------------- program constants -------------------------- *)
LEASE_ID == "readings_changefeed_lease"
TopN == 10
\* two of the five sensor ids of generator.py
SENSOR_IDS == {"sensor-1", "sensor-2"}

None == <<>>
Some(v) == <<v>>

Float(v) == [kind |-> "float", val |-> v]

\* a producer thread: where it is in producer() and the doc it has built
\* (None while it has none); "ended" is a thread an exception has ended
Started == [at |-> "sleep", doc |-> None]
Ended == [at |-> "ended", doc |-> None]
NonNumeric == [kind |-> "str", val |-> 0]
\* round(random.uniform(15.0, 40.0), 2): one representative, 15.000 degrees
GeneratedTemps == {Float(15000)}

VARIABLES
    readings,       \* readings container, in change-feed (commit) order
    summaries,      \* summaries container: set of documents
    leases,         \* leases container: set of documents
    now,            \* wall clock, whole seconds
    pc,             \* position of the summariser process
    lease,          \* main(): lease
    batch,          \* main(): batch
    new_token,      \* main(): new_token
    sensors_in_batch, \* main(): sensors_in_batch
    summarised,     \* main(): elements of sensors_in_batch the for loop has done
    faults,         \* cycles that died between their pull and their save
    threads,        \* generator: threads[s], the producer thread of sensor s
    \* history variables
    scanned,        \* change-feed length at the latest pull of this process
    sumAtPull,      \* number of summaries at the latest pull of this process
    completed,      \* some cycle has reached the end of save_lease
    abandoned,      \* <<c>>: a cycle pulled from c and died before its save
    maxSaved,       \* highest position ever persisted in the lease
    windowOf        \* windowOf[k]: the rows the query returned for the k-th
                    \* summary written

vars == <<readings, summaries, leases, now, pc, lease, batch, new_token,
          sensors_in_batch, summarised, faults, threads,
          scanned, sumAtPull, completed, abandoned, maxSaved, windowOf>>

prog == <<pc, lease, batch, new_token, sensors_in_batch, summarised>>
hist == <<scanned, sumAtPull, completed, abandoned, maxSaved, windowOf>>

(* ------------------------------ helpers ------------------------------- *)
Max(S) == CHOOSE x \in S : \A y \in S : y <= x
Min(S) == CHOOSE x \in S : \A y \in S : x <= y

RECURSIVE SumOver(_, _)
SumOver(f, S) ==
    IF S = {} THEN 0
    ELSE LET i == CHOOSE j \in S : TRUE IN f[i] + SumOver(f, S \ {i})

\* container.upsert_item(doc): replace the document with the same id
Upsert(container, doc) == {d \in container : d.id # doc.id} \cup {doc}

\* utc_now_str(): the clock truncated to whole seconds
utc_now_str == now

\* (mutation of Truthy: `is not None` in place of truthiness)
Truthy_NotNone(x) == x # None

\* Python truthiness of an Optional[str]: None and "" are falsy
Truthy(x) == x # None /\ x # Some("")

\* Python truthiness of a continuation token; the store issues no empty token
TruthyToken(t) == t # None

\* dict.get(key): None when the key is missing
Get(d, k) == IF k \in DOMAIN d THEN d[k] ELSE None

\* the value of main()'s lease before load_lease has returned
NoLease == [id |-> "", continuation |-> None, last_run_utc |-> None]

\* load_lease: the fresh lease of the except branch
FreshLease == [id |-> LEASE_ID, continuation |-> None, last_run_utc |-> None]

(* --------------------------- change feed ------------------------------ *)
\* the token the store issues for "p records scanned"
Tok(p) == Some(p)
Pos(t) == t[1]

\* the header names a change-feed response may carry the token under
HeaderNames == {{"etag"}, {"x-ms-continuation"}, {"etag", "x-ms-continuation"}}

\* read_changes.hook: the value of latest_token after the hook has run
hook(headers, latest) ==
    LET e == Get(headers, "etag")
        token == IF TruthyToken(e) THEN e ELSE Get(headers, "x-ms-continuation")
    IN IF TruthyToken(token) THEN token ELSE latest

\* (mutation of FeedKwargs: the continuation is never passed on)
FeedKwargs_AlwaysNow(continuation) ==
    [max_item_count |-> 1000, mode |-> "LatestVersion", start_time |-> "Now"]

\* read_changes: the keyword arguments of query_items_change_feed
FeedKwargs(continuation) ==
    IF TruthyToken(continuation)
    THEN [max_item_count |-> 1000, mode |-> "LatestVersion",
          continuation |-> continuation]
    ELSE [max_item_count |-> 1000, mode |-> "LatestVersion",
          start_time |-> "Now"]

\* the store: the position a pull with these arguments starts at
FeedStart(kwargs) ==
    IF "continuation" \in DOMAIN kwargs THEN Pos(kwargs.continuation)
    ELSE Len(readings)

\* the store: list(query_items_change_feed(**kwargs)) drains the feed from
\* the start position to its current end
FeedItems(kwargs) == SubSeq(readings, FeedStart(kwargs) + 1, Len(readings))

\* (mutation of read_changes: the token is taken only when items came back)
read_changes_TokenIfItems(continuation, hk) ==
    LET kwargs == FeedKwargs(continuation)
        headers == [k \in hk |-> Tok(Len(readings))]
    IN [items |-> FeedItems(kwargs),
        token |-> IF FeedItems(kwargs) = <<>> THEN continuation
                  ELSE hook(headers, continuation)]

\* read_changes with a response carrying the token under the names hk
read_changes(continuation, hk) ==
    LET kwargs == FeedKwargs(continuation)
        headers == [k \in hk |-> Tok(Len(readings))]
    IN [items |-> FeedItems(kwargs),
        token |-> hook(headers, continuation)]

\* (mutation of SensorsInBatch: only the first record of the batch is looked at)
SensorsInBatch_FirstOnly(b) ==
    {b[i].sensor_id[1] : i \in {j \in {1} : Truthy(b[j].sensor_id)}}

\* main(): sensors_in_batch
SensorsInBatch(b) ==
    {b[i].sensor_id[1] : i \in {j \in 1..Len(b) : Truthy(b[j].sensor_id)}}

(* ---------------------------- aggregation ----------------------------- *)
\* WHERE c.sensor_id = @sid
Matching(sid) == {i \in 1..Len(readings) : readings[i].sensor_id = Some(sid)}

\* (mutation of Windows: the query without TOP 10)
Windows_All(sid) == {Matching(sid)}

\* SELECT TOP 10 ... ORDER BY c.timestamp DESC: the row sets the query may
\* return (the order among equal timestamps is the store's choice)
Windows(sid) ==
    LET M == Matching(sid)
        n == IF Cardinality(M) < TopN THEN Cardinality(M) ELSE TopN
    IN {W \in SUBSET M :
          /\ Cardinality(W) = n
          /\ \A i \in W : \A j \in M \ W :
                 readings[i].timestamp >= readings[j].timestamp}

\* (mutation of IsNumber: no type filter)
IsNumber_Any(x) == TRUE

\* isinstance(x, (int, float))
IsNumber(x) == x.kind \in {"int", "float"}

\* round(x, 2) of the fraction num/den in hundredths, ties to even
RoundHalfEven(num, den) ==
    LET q == num \div den
        r == num % den
    IN IF 2 * r < den THEN q
       ELSE IF 2 * r > den THEN q + 1
       ELSE IF q % 2 = 0 THEN q ELSE q + 1

\* the rows of W whose temperature passes the isinstance filter
Temps(W) == {i \in W : IsNumber(readings[i].temperature)}

\* (mutation of SummaryDoc: the list of temperatures is kept from call to
\* call, so the maximum is taken over the earlier summaries too)
SummaryDoc_KeepsTemps(sid, W, id) ==
    LET T == Temps(W)
        v == [i \in T |-> readings[i].temperature.val]
    IN [id |-> id,
        timestamp |-> utc_now_str,
        sensor_id |-> sid,
        max_temp |-> Max({v[i] : i \in T} \cup {d.max_temp : d \in summaries}),
        min_temp |-> Min({v[i] : i \in T}),
        avg_temp |-> RoundHalfEven(SumOver(v, T), 10 * Cardinality(T))]

\* summarise_sensor: the document `out` for the window W (Temps(W) # {})
SummaryDoc(sid, W, id) ==
    LET T == Temps(W)
        v == [i \in T |-> readings[i].temperature.val]
    IN [id |-> id,
        timestamp |-> utc_now_str,
        sensor_id |-> sid,
        max_temp |-> Max({v[i] : i \in T}),
        min_temp |-> Min({v[i] : i \in T}),
        avg_temp |-> RoundHalfEven(SumOver(v, T), 10 * Cardinality(T))]

\* (mutation of FreshId: the same id for every summary)
FreshId_Fixed(container) == 1

\* str(uuid.uuid4()): an id no document of the container has
FreshId(container) == Cardinality(container) + 1


(* ------------------------------- state -------------------------------- *)
Init ==
    /\ readings = <<>>
    /\ summaries = {}
    /\ leases = {}
    /\ now = 0
    /\ pc = "load"
    /\ lease = NoLease
    /\ batch = <<>>
    /\ new_token = None
    /\ sensors_in_batch = {}
    /\ summarised = {}
    /\ faults = 0
    /\ threads = [s \in SENSOR_IDS |-> Started]
    /\ scanned = 0
    /\ sumAtPull = 0
    /\ completed = FALSE
    /\ abandoned = None
    /\ maxSaved = 0
    /\ windowOf = <<>>

(* ------------------- writers of the readings container ---------------- *)
\* generator.producer, one reading of one sensor written
Produce(sensor_id, temp_c) ==
    /\ Len(readings) < MaxReadings
    /\ readings' = Append(readings,
                     [id |-> Len(readings) + 1,
                      sensor_id |-> Some(sensor_id),
                      temperature |-> temp_c,
                      timestamp |-> now])
    /\ UNCHANGED <<threads, summaries, leases, now, prog, faults, hist>>

\* the records the summariser tolerates but the generator never writes:
\* sensor_id missing or empty, temperature not a number
Malformed ==
    {[sensor_id |-> Some(""), temperature |-> Float(15000)],
     [sensor_id |-> Some("sensor-1"), temperature |-> NonNumeric]}

ForeignWrite(doc) ==
    /\ Len(readings) < MaxReadings
    /\ readings' = Append(readings,
                     [id |-> Len(readings) + 1,
                      sensor_id |-> doc.sensor_id,
                      temperature |-> doc.temperature,
                      timestamp |-> now])
    /\ UNCHANGED <<threads, summaries, leases, now, prog, faults, hist>>

\* a second of wall-clock time passes (utc_now_str has a resolution of one
\* second: a cycle is taken to run within one, and the clock moves on while
\* the driver sleeps out its INTERVAL or is down)
Tick ==
    /\ now < MaxClock
    /\ pc \in {"sleep", "dead"}
    /\ now' = now + 1
    /\ UNCHANGED <<threads, readings, summaries, leases, prog, faults, hist>>

(* --------------------------- process death ---------------------------- *)
\* the process is between the pull of a cycle and the end of its save_lease
InCycle == pc \in {"summarise", "save"}

\* an exception leaves main(), or the process is killed: its memory is lost.
\* A cycle that dies after its pull is run again by the next process, so the
\* number of such deaths is bounded to bound the summaries container.
Die ==
    /\ pc' = "dead"
    /\ lease' = NoLease
    /\ batch' = <<>>
    /\ new_token' = None
    /\ sensors_in_batch' = {}
    /\ summarised' = {}
    /\ abandoned' = IF InCycle THEN Some(lease.continuation) ELSE abandoned
    /\ InCycle => faults < MaxAbandoned
    /\ faults' = IF InCycle THEN faults + 1 ELSE faults
    /\ scanned' = 0
    /\ sumAtPull' = 0
    /\ UNCHANGED <<threads, readings, summaries, leases, now, completed, maxSaved,
                   windowOf>>

\* the process is killed from outside
Kill ==
    /\ pc \in {"load", "read", "summarise", "save", "sleep"}
    /\ Die

\* the platform starts the process again
Restart ==
    /\ pc = "dead"
    /\ pc' = "load"
    /\ UNCHANGED <<threads, readings, summaries, leases, now, lease, batch, new_token,
                   sensors_in_batch, summarised, faults, hist>>

(* ----------------------------- load_lease ----------------------------- *)
\* read_item returns the lease document
LoadLeaseFound ==
    /\ pc = "load"
    /\ \E d \in leases :
         /\ d.id = LEASE_ID
         /\ lease' = d
    /\ pc' = "read"
    /\ UNCHANGED <<threads, readings, summaries, leases, now, batch, new_token,
                   sensors_in_batch, summarised, faults, hist>>

\* (mutation of CreateLease: the fresh lease is returned but not written)
CreateLease_NotPersisted ==
    /\ lease' = FreshLease
    /\ pc' = "read"
    /\ UNCHANGED <<threads, readings, summaries, leases, now, batch, new_token,
                   sensors_in_batch, summarised, faults, hist>>

\* the except branch, upsert_item succeeding
CreateLease ==
    /\ leases' = Upsert(leases, FreshLease)
    /\ lease' = FreshLease
    /\ pc' = "read"
    /\ UNCHANGED <<threads, readings, summaries, now, batch, new_token,
                   sensors_in_batch, summarised, faults, hist>>

\* read_item raises because there is no lease document
LoadLeaseNotFound ==
    /\ pc = "load"
    /\ \A d \in leases : d.id # LEASE_ID
    /\ CreateLease

\* read_item raises for another reason (timeout, throttling, ...)
LoadLeaseReadError ==
    /\ pc = "load"
    /\ CreateLease

\* read_item raises and the upsert_item of the except branch raises too
LoadLeaseFail ==
    /\ pc = "load"
    /\ Die

(* ---------------------------- main(): pull ---------------------------- *)
ReadChangesOk(hk) ==
    /\ pc = "read"
    /\ LET r == read_changes(lease.continuation, hk)
           s == IF r.items # <<>> THEN SensorsInBatch(r.items) ELSE {}
       IN /\ batch' = r.items
          /\ new_token' = r.token
          /\ sensors_in_batch' = s
          /\ pc' = IF s # {} THEN "summarise" ELSE "save"
    /\ summarised' = {}
    /\ scanned' = Len(readings)
    /\ sumAtPull' = Cardinality(summaries)
    /\ abandoned' = None
    /\ UNCHANGED <<threads, readings, summaries, leases, now, lease,
                   faults, completed, maxSaved, windowOf>>

\* query_items_change_feed raises
ReadChangesFail ==
    /\ pc = "read"
    /\ Die

(* ------------------------ main(): the for loop ------------------------ *)
\* (mutation of LoopDone: the loop is left after its first iteration)
LoopDone_First(visited, all) == TRUE

\* the for loop is over once every element of the set has been visited
LoopDone(visited, all) == visited = all

\* one iteration: summarise_sensor(sid) returns (a summary or None)
SummariseSensorOk(sid) ==
    /\ pc = "summarise"
    /\ sid \in sensors_in_batch \ summarised
    /\ \E W \in Windows(sid) :
         IF Temps(W) = {}
         THEN UNCHANGED <<summaries, windowOf>>
         ELSE /\ summaries' = Upsert(summaries,
                                     SummaryDoc(sid, W, FreshId(summaries)))
              /\ windowOf' = Append(windowOf, W)
    /\ summarised' = summarised \cup {sid}
    /\ pc' = IF LoopDone(summarised', sensors_in_batch)
             THEN "save" ELSE "summarise"
    /\ UNCHANGED <<threads, readings, leases, now, lease, batch, new_token,
                   sensors_in_batch, faults,
                   scanned, sumAtPull, completed, abandoned, maxSaved>>

\* query_items raises inside summarise_sensor(sid)
SummariseQueryFail(sid) ==
    /\ pc = "summarise"
    /\ sid \in sensors_in_batch \ summarised
    /\ Die

\* the upsert_item of the summary raises inside summarise_sensor(sid)
SummariseUpsertFail(sid) ==
    /\ pc = "summarise"
    /\ sid \in sensors_in_batch \ summarised
    /\ \E W \in Windows(sid) : Temps(W) # {}
    /\ Die

(* ------------------------- main(): save, sleep ------------------------ *)
\* (mutation of NextLease: the cursor is derived from the size of the batch)
NextLease_BatchSize == [lease EXCEPT !.continuation = Tok(Len(batch)),
                                     !.last_run_utc = Some(utc_now_str)]

\* (mutation of NextLease: last_run_utc is left alone when the batch is empty)
NextLease_KeepLastRun ==
    [lease EXCEPT !.continuation = new_token,
                  !.last_run_utc = IF batch = <<>> THEN @ ELSE Some(utc_now_str)]

\* (mutation of NextLease: the lease is saved under an id of its own)
NextLease_OtherId == [lease EXCEPT !.id = "lease",
                                   !.continuation = new_token,
                                   !.last_run_utc = Some(utc_now_str)]

\* lines 144-145: the lease main() hands to save_lease
NextLease == [lease EXCEPT !.continuation = new_token,
                           !.last_run_utc = Some(utc_now_str)]

SaveLeaseOk ==
    /\ pc = "save"
    /\ lease' = NextLease
    /\ leases' = Upsert(leases, NextLease)
    /\ pc' = "sleep"
    /\ completed' = TRUE
    /\ maxSaved' = IF new_token # None /\ Pos(new_token) > maxSaved
                   THEN Pos(new_token) ELSE maxSaved
    /\ UNCHANGED <<threads, readings, summaries, now, batch, new_token,
                   sensors_in_batch, summarised, faults,
                   scanned, sumAtPull, abandoned, windowOf>>

\* the upsert_item of save_lease raises
SaveLeaseFail ==
    /\ pc = "save"
    /\ Die

\* time.sleep(INTERVAL) returns
Wake ==
    /\ pc = "sleep"
    /\ pc' = "read"
    /\ UNCHANGED <<threads, readings, summaries, leases, now, lease, batch, new_token,
                   sensors_in_batch, summarised, faults, hist>>

(* --------------------------- specifications --------------------------- *)
Next ==
    \/ \E sid \in SENSOR_IDS : \E t \in GeneratedTemps : Produce(sid, t)
    \/ \E doc \in Malformed : ForeignWrite(doc)
    \/ Tick
    \/ Kill
    \/ Restart
    \/ LoadLeaseFound
    \/ LoadLeaseNotFound
    \/ LoadLeaseReadError
    \/ LoadLeaseFail
    \/ \E hk \in HeaderNames : ReadChangesOk(hk)
    \/ ReadChangesFail
    \/ \E sid \in SENSOR_IDS : SummariseSensorOk(sid)
    \/ \E sid \in SENSOR_IDS : SummariseQueryFail(sid)
    \/ \E sid \in SENSOR_IDS : SummariseUpsertFail(sid)
    \/ SaveLeaseOk
    \/ SaveLeaseFail
    \/ Wake

Spec == Init /\ [][Next]_vars

TypeOK ==
    /\ pc \in {"load", "read", "summarise", "save", "sleep", "dead"}
    /\ Len(readings) <= MaxReadings
    /\ now \in 0..MaxClock
    /\ faults \in 0..MaxAbandoned
    /\ summarised \subseteq sensors_in_batch


\* the summariser with no service error and no kill, scheduled fairly
NextLive ==
    \/ \E sid \in SENSOR_IDS : \E t \in GeneratedTemps : Produce(sid, t)
    \/ \E doc \in Malformed : ForeignWrite(doc)
    \/ Tick
    \/ LoadLeaseNotFound
    \/ \E hk \in HeaderNames : ReadChangesOk(hk)
    \/ \E sid \in SENSOR_IDS : SummariseSensorOk(sid)
    \/ SaveLeaseOk
    \/ Wake

DriverStep ==
    \/ LoadLeaseNotFound
    \/ \E hk \in HeaderNames : ReadChangesOk(hk)
    \/ \E sid \in SENSOR_IDS : SummariseSensorOk(sid)
    \/ SaveLeaseOk
    \/ Wake

SpecLive == Init /\ [][NextLive]_vars /\ WF_vars(DriverStep)

(* -------- the summariser started on a readings container with history -- *)
\* the readings a history is made of: sensor-1 at 20.000 degrees or without
\* a number, with at most two records of another kind in between
HistoryBase == {Float(20000), NonNumeric}

HistoryOther ==
    {[sensor_id |-> Some("sensor-1"), temperature |-> Float(10000)],
     [sensor_id |-> Some("sensor-1"), temperature |-> Float(30000)],
     [sensor_id |-> Some("sensor-1"), temperature |-> Float(15005)],
     [sensor_id |-> Some("sensor-1"), temperature |-> NonNumeric],
     [sensor_id |-> Some("sensor-2"), temperature |-> Float(10000)],
     [sensor_id |-> Some(""), temperature |-> Float(10000)],
     [sensor_id |-> None, temperature |-> Float(10000)]}

\* the timestamps of n records: in commit order, against it, or all equal
Stamp(mode, n, i) ==
    IF mode = "asc" THEN i ELSE IF mode = "desc" THEN n + 1 - i ELSE 0

\* the history of n records with base temperature b, stamped by mode, that
\* holds the record x at position i and the record y at position j
History(n, b, mode, i, x, j, y) ==
    [k \in 1..n |->
        LET d == IF k = i THEN x
                 ELSE IF k = j THEN y
                 ELSE [sensor_id |-> Some("sensor-1"), temperature |-> b]
        IN [id |-> k,
            sensor_id |-> d.sensor_id,
            temperature |-> d.temperature,
            timestamp |-> Stamp(mode, n, k)]]

\* the positions of a history of n records where it may differ from its
\* base: its two oldest and its two newest records
Positions(n) == {1, 2, n - 1, n} \cap (1..n)

Histories ==
    UNION {{History(n, b, mode, ij[1], x, ij[2], y) :
               b \in HistoryBase,
               mode \in {"asc", "desc", "flat"},
               ij \in {<<0, 0>>} \cup {<<i, 0>> : i \in Positions(n)}
                       \cup {<<i, j>> \in Positions(n) \X Positions(n) : i < j},
               x \in HistoryOther, y \in HistoryOther} :
           n \in 0..MaxHistory}

\* a process starting on a history, its lease one or two records behind
InitHistory ==
    /\ readings \in Histories
    /\ \E p \in {Len(readings) - 2, Len(readings) - 1} :
         /\ p >= 0
         /\ leases = {[id |-> LEASE_ID, continuation |-> Tok(p),
                       last_run_utc |-> Some(0)]}
         /\ maxSaved = p
    /\ summaries = {}
    /\ now = Len(readings)
    /\ pc = "load"
    /\ lease = NoLease
    /\ batch = <<>>
    /\ new_token = None
    /\ sensors_in_batch = {}
    /\ summarised = {}
    /\ faults = 0
    /\ threads = [s \in SENSOR_IDS |-> Started]
    /\ scanned = 0
    /\ sumAtPull = 0
    /\ completed = TRUE
    /\ abandoned = None
    /\ windowOf = <<>>

NextHistory ==
    \/ LoadLeaseFound
    \/ \E hk \in HeaderNames : ReadChangesOk(hk)
    \/ \E sid \in SENSOR_IDS : SummariseSensorOk(sid)
    \/ SaveLeaseOk
    \/ Wake

SpecHistory == InitHistory /\ [][NextHistory]_vars

\* a process starting on a short history, killed and started again, with
\* the generator still writing
InitRetry ==
    /\ InitHistory
    /\ Len(readings) <= MaxReadings + 1

NextRetry ==
    \/ \E sid \in SENSOR_IDS : \E t \in GeneratedTemps : Produce(sid, t)
    \/ Kill
    \/ Restart
    \/ NextHistory

SpecRetry == InitRetry /\ [][NextRetry]_vars

(* ------------------- generator: the producer threads ------------------ *)
\* producer(), lines 29-39: the sleep of 1 to 10 seconds is over; the
\* temperature is drawn, the clock is read and the doc is built (its uuid
\* is given by the position the doc takes in the container)
ProducerBuild(sensor_id, temp_c) ==
    /\ threads[sensor_id].at = "sleep"
    /\ threads' = [threads EXCEPT ![sensor_id] =
                     [at |-> "upsert",
                      doc |-> Some([sensor_id |-> Some(sensor_id),
                                    temperature |-> temp_c,
                                    timestamp |-> now])]]
    /\ UNCHANGED <<readings, summaries, leases, now, prog, faults, hist>>

\* lines 41-44: upsert_item returns; the thread is at the top of the loop
UpsertItemOk(sensor_id) ==
    /\ threads[sensor_id].at = "upsert"
    /\ Len(readings) < MaxReadings
    /\ LET doc == threads[sensor_id].doc[1]
       IN readings' = Append(readings,
                        [id |-> Len(readings) + 1,
                         sensor_id |-> doc.sensor_id,
                         temperature |-> doc.temperature,
                         timestamp |-> doc.timestamp])
    /\ threads' = [threads EXCEPT ![sensor_id] = Started]
    /\ UNCHANGED <<summaries, leases, now, prog, faults, hist>>

\* lines 45-50: upsert_item raises HttpResponseError; the error is printed
\* and the thread sleeps a second
UpsertItemHttpResponseError(sensor_id) ==
    /\ threads[sensor_id].at = "upsert"
    /\ threads' = [threads EXCEPT ![sensor_id] =
                     [at |-> "retry_sleep", doc |-> None]]
    /\ UNCHANGED <<readings, summaries, leases, now, prog, faults, hist>>

\* line 50 is over: back to the top of the loop
RetrySleepDone(sensor_id) ==
    /\ threads[sensor_id].at = "retry_sleep"
    /\ threads' = [threads EXCEPT ![sensor_id] = Started]
    /\ UNCHANGED <<readings, summaries, leases, now, prog, faults, hist>>

\* upsert_item raises an exception that is not an HttpResponseError (the
\* request never reached the service, the response timed out): no except
\* clause of producer() matches, the exception leaves the thread's target
\* and the thread ends; main() and the other threads go on
UpsertItemOtherError(sensor_id) ==
    /\ threads[sensor_id].at = "upsert"
    /\ threads' = [threads EXCEPT ![sensor_id] = Ended]
    /\ UNCHANGED <<readings, summaries, leases, now, prog, faults, hist>>

\* generator.main() has started its threads; no summariser runs
InitGenerator ==
    /\ readings = <<>>
    /\ summaries = {}
    /\ leases = {}
    /\ now = 0
    /\ pc = "dead"
    /\ lease = NoLease
    /\ batch = <<>>
    /\ new_token = None
    /\ sensors_in_batch = {}
    /\ summarised = {}
    /\ faults = 0
    /\ threads = [s \in SENSOR_IDS |-> Started]
    /\ scanned = 0
    /\ sumAtPull = 0
    /\ completed = FALSE
    /\ abandoned = None
    /\ maxSaved = 0
    /\ windowOf = <<>>

NextGenerator ==
    \/ \E sid \in SENSOR_IDS : \E t \in GeneratedTemps : ProducerBuild(sid, t)
    \/ \E sid \in SENSOR_IDS : UpsertItemOk(sid)
    \/ \E sid \in SENSOR_IDS : UpsertItemHttpResponseError(sid)
    \/ \E sid \in SENSOR_IDS : RetrySleepDone(sid)
    \/ \E sid \in SENSOR_IDS : UpsertItemOtherError(sid)
    \/ Tick

SpecGenerator == InitGenerator /\ [][NextGenerator]_vars

(* ------------------------------ properties ---------------------------- *)
\* the lease document of the leases container, None when there is none
Persisted ==
    IF \E d \in leases : d.id = LEASE_ID
    THEN Some(CHOOSE d \in leases : d.id = LEASE_ID)
    ELSE None

\* the continuation the leases container holds
PersistedCont == IF Persisted = None THEN None ELSE Persisted[1].continuation

\* the present, non-empty sensor ids of the records of b
NonEmptyIds(b) ==
    {b[i].sensor_id : i \in 1..Len(b)} \ {None, Some("")}

\* C1: whenever save_lease persists the continuation of a pull,
\* summarise_sensor has run to completion for every distinct non-empty
\* sensor_id of the batch of that pull, and for nothing else.
C1_SaveAfterAggregation ==
    [][SaveLeaseOk =>
         {Some(sid) : sid \in summarised} = NonEmptyIds(batch)]_vars

C1_Witness ==
    /\ pc = "sleep"
    /\ Cardinality(summarised) = 2
    /\ PersistedCont = new_token

\* C2: after a cycle was abandoned between its pull and the end of its
\* save_lease, the first pull of the restarted process uses the
\* continuation the abandoned cycle used.
C2_ResumeFromSame ==
    (pc = "read" /\ abandoned # None) => lease.continuation = abandoned[1]

\* C3: an error of the change-feed pull abandons the cycle only: the driver
\* keeps running and goes on to a later cycle.
C3_RetriedNextCycle ==
    [][ReadChangesFail =>
         /\ pc' \in {"sleep", "read"}
         /\ lease'.continuation = lease.continuation
         /\ leases' = leases]_vars

\* C4: a failure of one key's window query or summary write does not stop
\* the driver: the other keys are still summarised and the lease is saved.
C4_KeyFailureIsolated ==
    [][(\E sid \in SENSOR_IDS :
           SummariseQueryFail(sid) \/ SummariseUpsertFail(sid))
         => pc' \in {"summarise", "save"}]_vars

\* C5: when the read of the lease fails at startup because of a store
\* error, the driver does not go on to run cycles.
C5_LoadFailureFatal ==
    [][LoadLeaseReadError => pc' \notin {"read", "summarise", "save", "sleep"}]_vars

\* C6: the position persisted by a cycle is at or after the position the
\* cycle's pull started from, and at or after every position persisted
\* before.
C6_NoRegress ==
    [][PersistedCont' # None =>
         /\ Pos(PersistedCont') >= maxSaved
         /\ (SaveLeaseOk /\ lease.continuation # None)
               => Pos(PersistedCont') >= Pos(lease.continuation)]_vars

C6_Witness ==
    /\ pc = "sleep"
    /\ batch # <<>>
    /\ PersistedCont # None
    /\ Pos(PersistedCont) = maxSaved
    /\ maxSaved > 1

\* the reading appended as the i-th record is in the batch of the latest pull
InBatch(i) == \E j \in 1..Len(batch) : batch[j].id = i

\* C7: every reading appended after the first pull (the i-th record, present
\* in the feed while the latest pull ended before it) is eventually returned
\* by a pull (no service errors, driver scheduled fairly).
C7_EventuallyDelivered ==
    \A i \in 1..MaxReadings :
        (new_token # None /\ Len(readings) >= i /\ i > Pos(new_token))
            ~> InBatch(i)

C7_Witness ==
    /\ pc = "sleep"
    /\ Len(batch) = 1
    /\ InBatch(2)
    /\ PersistedCont = Tok(2)

\* C8: after any cycle, also one with an empty batch, the persisted
\* continuation is the token of the position at which the pull ended.
C8_TokenCaptured ==
    pc = "sleep" => PersistedCont = Tok(scanned)

C8_Witness ==
    /\ pc = "sleep"
    /\ batch = <<>>
    /\ scanned > 0
    /\ PersistedCont = Tok(scanned)

\* C9: once a cycle has completed, no pull is made with an absent
\* continuation (start_time "Now").
C9_BootstrapOnce ==
    (completed /\ pc = "read") => TruthyToken(lease.continuation)

\* C10: a cycle with an empty batch calls summarise_sensor for no key,
\* writes no summary, and saves the lease with last_run_utc set to the
\* current time.
C10_EmptyBatch ==
    /\ [](batch = <<>> => pc # "summarise")
    /\ [][(SaveLeaseOk /\ batch = <<>>) =>
            /\ summarised = {}
            /\ Cardinality(summaries) = sumAtPull
            /\ summaries' = summaries
            /\ Persisted' # None
            /\ Persisted'[1].last_run_utc = Some(now)
            /\ Persisted'[1].continuation = new_token]_vars

C10_Witness ==
    /\ pc = "sleep"
    /\ batch = <<>>
    /\ summaries # {}
    /\ Persisted[1].last_run_utc = Some(now)
    /\ now > 0

\* the summaries written since the latest pull for the key sid
NewSummaries(sid) == {d \in summaries : d.id > sumAtPull /\ d.sensor_id = sid}

\* the kinds of value the claims call a numerically valid temperature
NumericKinds == {"int", "float"}

\* the rows of W holding a numerically valid temperature
ValidIn(W) == {i \in W : readings[i].temperature.kind \in NumericKinds}

\* the sets of rows that are "the 10 most recent readings of the key sid":
\* at most 10 rows of the key, all of them when the key has fewer, and no
\* row left out is more recent than a row taken
MostRecent(sid) ==
    LET M == {i \in DOMAIN readings : readings[i].sensor_id = <<sid>>}
    IN {W \in SUBSET M :
          /\ Cardinality(W) <= 10
          /\ (Cardinality(W) < 10 => W = M)
          /\ ~ \E i \in M \ W : \E j \in W :
                 readings[i].timestamp > readings[j].timestamp}

\* C11: in a cycle with a non-empty batch, every summary written since the
\* pull is of a present, non-empty sensor_id of the batch, no key gets more
\* than one; each call of summarise_sensor adds exactly one summary of its
\* key when the key's window holds a valid temperature and none otherwise;
\* and when the loop is over every key of the batch has been handled.
C11_OnePerKey ==
    /\ [](pc \in {"summarise", "save", "sleep"} =>
            \A d \in summaries : d.id > sumAtPull =>
                /\ Some(d.sensor_id) \in NonEmptyIds(batch)
                /\ Cardinality(NewSummaries(d.sensor_id)) = 1)
    /\ [](pc \in {"save", "sleep"} =>
            \A k \in NonEmptyIds(batch) : k[1] \in summarised)
    /\ [][\A sid \in SENSOR_IDS : SummariseSensorOk(sid) =>
            /\ Cardinality(summaries') = Cardinality(summaries) +
                 (IF \E W \in MostRecent(sid) : ValidIn(W) # {} THEN 1 ELSE 0)
            /\ \A d \in summaries' \ summaries : d.sensor_id = sid]_vars

C11_Witness ==
    /\ pc = "save"
    /\ Len(batch) = 2
    /\ batch[1].sensor_id # batch[2].sensor_id
    /\ Cardinality(NewSummaries("sensor-1")) = 1
    /\ Cardinality(NewSummaries("sensor-2")) = 1

C14_SensorsInBatch ==
    /\ [](pc \in {"summarise", "save", "sleep"} =>
            {Some(sid) : sid \in sensors_in_batch} = NonEmptyIds(batch))
    /\ [][(\E hk \in HeaderNames : ReadChangesOk(hk)) =>
            pc' \in {"summarise", "save"}]_vars

C14_Witness ==
    /\ pc = "summarise"
    /\ Len(batch) = 2
    /\ batch[1].sensor_id = None
    /\ batch[2].sensor_id = Some("sensor-1")
    /\ sensors_in_batch = {"sensor-1"}

\* the three statistics of a summary
Statistics(d) == <<d.max_temp, d.min_temp, d.avg_temp>>

\* C15: two summaries of the same key computed over the same window (a
\* cycle abandoned before its save and run again with the window unchanged)
\* have the same max_temp, min_temp and avg_temp.
C15_RetryIdempotent ==
    \A d1, d2 \in summaries :
        (d1.sensor_id = d2.sensor_id /\ windowOf[d1.id] = windowOf[d2.id])
            => Statistics(d1) = Statistics(d2)

\* a cycle was abandoned and run again: two summaries of one window, under
\* two ids, while another key has a summary with other statistics
C15_Witness ==
    /\ faults >= 1
    /\ \E d1, d2 \in summaries :
          /\ d1.id # d2.id
          /\ d1.sensor_id = d2.sensor_id
          /\ windowOf[d1.id] = windowOf[d2.id]
          /\ Statistics(d1) = Statistics(d2)
          /\ d1.max_temp # d1.min_temp
    /\ \E d3, d4 \in summaries : d3.max_temp > d4.max_temp

\* C16: load_lease hands main() the one lease document, a fresh one
\* (continuation and last_run_utc absent) written to the container when
\* the container had none; from then on the container holds exactly one
\* document, with id 'readings_changefeed_lease'.
C16_SingleLease ==
    /\ [](pc \in {"read", "summarise", "save", "sleep"} =>
            /\ Cardinality(leases) = 1
            /\ \A d \in leases : d.id = "readings_changefeed_lease")
    /\ [][(pc = "load" /\ pc' = "read") =>
            /\ leases' = {lease'}
            /\ lease'.id = "readings_changefeed_lease"
            /\ leases = {} =>
                  (lease'.continuation = None /\ lease'.last_run_utc = None)]_vars

C16_Witness ==
    /\ pc = "sleep"
    /\ Cardinality(leases) = 1
    /\ completed
    /\ faults >= 1
    /\ Persisted # None
    /\ Persisted[1].last_run_utc # None

\* C17: the summariser only appends summaries: no step changes or removes
\* an existing summary, a new summary has an id no summary has, and no step
\* of the summariser changes the readings.
C17_AppendOnly ==
    [][/\ summaries \subseteq summaries'
       /\ \A d \in summaries' \ summaries :
             \A e \in summaries : e.id # d.id
       /\ (prog' # prog \/ summaries' # summaries \/ leases' # leases)
             => readings' = readings]_vars

C17_Witness ==
    /\ Cardinality(summaries) = 3
    /\ Cardinality({d.id : d \in summaries}) = 3
    /\ pc = "sleep"

\* C18 as stated: a start that finds a persisted continuation goes on with
\* that continuation and leaves it persisted, whatever read_item did.
C18_NeverReset ==
    [][(pc = "load" /\ PersistedCont # None /\ pc' = "read") =>
          /\ PersistedCont' = PersistedCont
          /\ lease'.continuation = PersistedCont]_vars

\* C19: while the driver sleeps, and when it starts a pull, the lease in
\* memory is the persisted lease, so the pull of cycle k+1 uses the
\* continuation persisted at the end of cycle k (for the first cycle, the
\* one load_lease returned).
C19_MemoryIsPersisted ==
    pc \in {"sleep", "read"} => Persisted = Some(lease)

C19_Witness ==
    /\ pc = "read"
    /\ completed
    /\ Persisted = Some(lease)
    /\ lease.continuation = Tok(MaxReadings)

\* C20 as stated: min_temp <= avg_temp <= max_temp for every summary
\* (temperatures in thousandths, avg_temp in hundredths).
C20_AvgBetween ==
    \A d \in summaries :
        d.min_temp <= 10 * d.avg_temp /\ 10 * d.avg_temp <= d.max_temp

\* the extent of the divergence from C20: avg_temp is within 0.005 of the
\* interval from min_temp to max_temp, and inside it when every valid
\* temperature of the window is a multiple of 0.01
AvgBetweenRounded ==
    \A d \in summaries :
        /\ d.min_temp - 5 <= 10 * d.avg_temp
        /\ 10 * d.avg_temp <= d.max_temp + 5
        /\ (\A i \in ValidIn(windowOf[d.id]) :
               readings[i].temperature.val % 10 = 0)
              => (d.min_temp <= 10 * d.avg_temp /\ 10 * d.avg_temp <= d.max_temp)

\* a summary of a window of multiples of 0.01, its average strictly between
AvgBetweenRoundedCase ==
    \E d \in summaries :
        /\ \A i \in ValidIn(windowOf[d.id]) :
              readings[i].temperature.val % 10 = 0
        /\ Cardinality(ValidIn(windowOf[d.id])) = 9
        /\ d.min_temp < 10 * d.avg_temp
        /\ 10 * d.avg_temp < d.max_temp

\* C21: a failed upsert_item stops no producer thread, neither the one of
\* the sensor whose write failed nor the one of another sensor.
C21_ProducersNeverStop ==
    [][\A sid \in SENSOR_IDS :
         (UpsertItemHttpResponseError(sid) \/ UpsertItemOtherError(sid))
            => \A s \in SENSOR_IDS : threads'[s].at # "ended"]_vars

\* what holds of C21: a step of one producer thread, a failed upsert_item
\* included, leaves the threads of the other sensors as they are, and a
\* thread an HttpResponseError has hit goes on with its loop
ProducersIndependent ==
    [][\A sid \in SENSOR_IDS :
         /\ threads'[sid] # threads[sid] =>
               \A s \in SENSOR_IDS \ {sid} : threads'[s] = threads[s]
         /\ UpsertItemHttpResponseError(sid) =>
               threads'[sid].at \in {"retry_sleep", "sleep"}]_vars

====
